---- MODULE Spec2Model ----
(***************************************************************************)
(* Model of WTwebdev/telemetry.py: the TelemInterface class that polls the *)
(* War Thunder localhost telemetry endpoints, normalises the indicator and *)
(* state snapshots and classifies the game status.                         *)
(*                                                                         *)
(* Representation of Python values                                         *)
(*  - a dict is a function whose DOMAIN is its set of keys; {} is the      *)
(*    function with the empty domain;                                      *)
(*  - a list is a sequence; a comment / event record is [id |-> n];        *)
(*  - a str that the code slices (indicators['type']) is a sequence of     *)
(*    one-character strings, so that name[:2] is SubSeq;                   *)
(*  - the float returned by find_altitude is a decimal fixed-point number  *)
(*    with four fractional digits (FixedPointOne units per metre), so      *)
(*    that v * 0.3048 is v * FT_TO_M and a raw v is v * FixedPointOne;     *)
(*  - a basic_telemetry field the code may set to None (IAS, flapState,    *)
(*    gearState) holds None == <<>> or Some(v) == <<v>>;                   *)
(*  - an exception is a record [type, msg]; msg stands for str(e).         *)
(***************************************************************************)
EXTENDS Integers, Sequences, FiniteSets, TLC

(* ------------------------------ bounds --------------------------------- *)
\* Log scope (SpecLog): largest comment / event id the server hands out,
\* longest batch one response carries, longest accumulated list followed
MaxId == 2
MaxBatch == 2
MaxLog == 3
\* Poll scope (Spec): the same for the polls that vary the snapshots
PollMaxId == 0
PollMaxLog == 1
\* Altitude scope (SpecAlt): an altitude key reads -1 .. MaxAlt
MaxAlt == 2

(* --------------------------- module constants -------------------------- *)
\* FT_TO_M = 0.3048, in units of 1/FixedPointOne
FT_TO_M == 3048
FixedPointOne == 10000

METRICS_PLANES ==
  { <<"p","-">>, <<"f","-">>, <<"f","2">>, <<"f","3">>, <<"f","4">>,
    <<"f","6">>, <<"f","7">>, <<"f","8">>, <<"f","9">>, <<"o","s">>,
    <<"s","b">>, <<"t","b">>, <<"a","-">>, <<"p","b">>, <<"a","m">>,
    <<"a","d">>, <<"f","j">>, <<"b","-">>, <<"b","_">>, <<"x","p">>,
    <<"b","t">>, <<"x","a">>, <<"x","f">>, <<"s","p">>, <<"h","u">>,
    <<"t","y">>, <<"f","i">>, <<"g","l">>, <<"n","i">>, <<"f","u">>,
    <<"s","e">>, <<"b","l">>, <<"b","e">>, <<"s","u">>, <<"t","e">>,
    <<"s","t">>, <<"m","o">>, <<"w","e">>, <<"h","a">> }

IN_FLIGHT == 0
IN_MENU == -1
NO_MISSION == -2
WT_NOT_RUNNING == -3
OTHER_ERROR == -4

StatusCodes == {IN_FLIGHT, IN_MENU, NO_MISSION, WT_NOT_RUNNING, OTHER_ERROR}

(* --------------------------- Python values ----------------------------- *)
EmptyDict == [k \in {} |-> TRUE]

\* d[k] = v
Put(d, k, v) == (k :> v) @@ d

None == <<>>
Some(v) == <<v>>

FAILED_MSG == "Failed to establish a new connection"

NoExc == [type |-> "none", msg |-> ""]
Exc(t, m) == [type |-> t, msg |-> m]

\* requests raises ConnectionError for a refused connection: its text holds
\* urllib3's "Failed to establish a new connection"
ConnectionRefused == Exc("ConnectionError", FAILED_MSG)
\* requests.exceptions.ConnectTimeout: its text is urllib3's "timed out"
ConnectTimeout == Exc("ConnectTimeout", "timed out")
\* anything else get() or .json() raises (HTTP error, body that is not JSON)
TransportOther == Exc("Exception", "other")

KeyError(k) == Exc("KeyError", k)

\* 'Failed to establish a new connection' in str(e)
FailedToEstablish(e) == e.msg = FAILED_MSG

(* ------------------------ transport responses -------------------------- *)
\* outcome of one get(url).json(): the parsed body, or the exception raised
RespOk(b) == [ok |-> TRUE, body |-> b]
RespErr(e) == [ok |-> FALSE, exc |-> e]
\* placeholder for a request the code never issues
NoReq == [ok |-> FALSE, exc |-> NoExc]

TransportErrors == {ConnectionRefused, ConnectTimeout, TransportOther}

\* how a request ended, for the record of the call
Kind(resp) ==
  IF resp.ok THEN "ok"
  ELSE IF resp.exc = NoExc THEN "none"
  ELSE IF resp.exc = ConnectionRefused THEN "refused"
  ELSE IF resp.exc = ConnectTimeout THEN "timeout"
  ELSE "other"

(* ------------------------------ helpers -------------------------------- *)
Max(S) == CHOOSE x \in S : \A y \in S : y <= x

Ids(log) == {log[n].id : n \in 1..Len(log)}

\* the instance: the fields __init__ creates.  events is a list until
\* get_telemetry replaces it by {}: events_type tells which, and events holds
\* the items (a dict that is only ever {} has none).
\* map_info stands for the MapInfo collaborator: the player position it last
\* parsed (0, 0 before the first refresh).
NewTelemInterface ==
  [ connected       |-> FALSE,
    full_telemetry  |-> EmptyDict,
    basic_telemetry |-> EmptyDict,
    indicators      |-> EmptyDict,
    state           |-> EmptyDict,
    map_info        |-> [player_lat |-> 0, player_lon |-> 0],
    last_event_ID   |-> -1,
    last_comment_ID |-> -1,
    comments        |-> <<>>,
    events          |-> <<>>,
    events_type     |-> "list",
    status          |-> WT_NOT_RUNNING ]

\* result of running a method body: the instance afterwards and the
\* exception that left the body (NoExc when it ran to its end)
Done(s) == [self |-> s, exc |-> NoExc]
Raise(s, e) == [self |-> s, exc |-> e]

(* ----------------------------- combine_dicts --------------------------- *)
\* A plausible slip: keeping the value to_dict already has.
combine_dicts_keep(to_dict, from_dict) == to_dict @@ from_dict

\* for key in from_dict: to_dict[key] = from_dict[key]; both are dicts here
combine_dicts(to_dict, from_dict) == from_dict @@ to_dict

(* ------------------------------ get_comments --------------------------- *)
\* A plausible slip: resetting the watermark when nothing is accumulated.
get_comments_reset(s, resp) ==
  IF ~resp.ok THEN Raise(s, resp.exc)
  ELSE LET all == s.comments \o resp.body IN
       Done([s EXCEPT !.comments = all,
                      !.last_comment_ID =
                          IF all # <<>> THEN Max(Ids(all)) ELSE -1])

\* A plausible slip: taking the id of the last comment, as get_events does.
get_comments_last(s, resp) ==
  IF ~resp.ok THEN Raise(s, resp.exc)
  ELSE LET all == s.comments \o resp.body IN
       Done([s EXCEPT !.comments = all,
                      !.last_comment_ID =
                          IF all # <<>> THEN all[Len(all)].id ELSE @])

get_comments(s, resp) ==
  IF ~resp.ok THEN Raise(s, resp.exc)
  ELSE LET all == s.comments \o resp.body IN
       Done([s EXCEPT !.comments = all,
                      !.last_comment_ID =
                          IF all # <<>> THEN Max(Ids(all)) ELSE @])

(* ------------------------------- get_events ---------------------------- *)
\* first try block: the request, ['damage'], and extend; any exception is
\* swallowed and leaves self.events as it was
events_extend(s, resp) ==
  IF ~resp.ok THEN s
  ELSE IF "damage" \notin DOMAIN resp.body THEN s
  ELSE IF s.events_type = "dict" THEN s   \* dict has no extend: AttributeError
  ELSE [s EXCEPT !.events = @ \o resp.body.damage]

\* A plausible slip: reading the id of the first event, self.events[0].
get_events_first(s, resp) ==
  LET s1 == events_extend(s, resp) IN
  IF s1.events_type = "dict" THEN Raise(s1, Exc("KeyError", "-1"))
  ELSE IF s1.events = <<>> THEN Done(s1)
  ELSE Done([s1 EXCEPT !.last_event_ID = s1.events[1].id])

\* second try block: self.events[-1]['id'], only IndexError is caught
get_events(s, resp) ==
  LET s1 == events_extend(s, resp) IN
  IF s1.events_type = "dict" THEN Raise(s1, Exc("KeyError", "-1"))
  ELSE IF s1.events = <<>> THEN Done(s1)
  ELSE Done([s1 EXCEPT !.last_event_ID = s1.events[Len(s1.events)].id])

(* ------------------------------ find_altitude -------------------------- *)
\* name[:2]
Prefix2(name) == SubSeq(name, 1, IF Len(name) < 2 THEN Len(name) ELSE 2)

\* A plausible slip: converting whatever the airframe is.
find_altitude_always_feet(ind) ==
  IF "altitude_10k" \in DOMAIN ind THEN ind["altitude_10k"] * FT_TO_M
  ELSE IF "altitude_hour" \in DOMAIN ind THEN ind["altitude_hour"] * FT_TO_M
  ELSE IF "altitude_min" \in DOMAIN ind THEN ind["altitude_min"] * FT_TO_M
  ELSE 0

\* A plausible slip: reading altitude_hour before altitude_10k in the
\* branch that does not convert.
find_altitude_hour_first(ind) ==
  IF Prefix2(ind["type"]) \in METRICS_PLANES
  THEN IF "altitude_10k" \in DOMAIN ind THEN ind["altitude_10k"] * FT_TO_M
       ELSE IF "altitude_hour" \in DOMAIN ind THEN ind["altitude_hour"] * FT_TO_M
       ELSE IF "altitude_min" \in DOMAIN ind THEN ind["altitude_min"] * FT_TO_M
       ELSE 0
  ELSE IF "altitude_hour" \in DOMAIN ind THEN ind["altitude_hour"] * FixedPointOne
       ELSE IF "altitude_10k" \in DOMAIN ind THEN ind["altitude_10k"] * FixedPointOne
       ELSE IF "altitude_min" \in DOMAIN ind THEN ind["altitude_min"] * FixedPointOne
       ELSE 0

\* called only where ind has 'type' (the caller models the KeyError of
\* self.indicators['type']); a raw value v is v * FixedPointOne
find_altitude(ind) ==
  IF Prefix2(ind["type"]) \in METRICS_PLANES
  THEN IF "altitude_10k" \in DOMAIN ind THEN ind["altitude_10k"] * FT_TO_M
       ELSE IF "altitude_hour" \in DOMAIN ind THEN ind["altitude_hour"] * FT_TO_M
       ELSE IF "altitude_min" \in DOMAIN ind THEN ind["altitude_min"] * FT_TO_M
       ELSE 0
  ELSE IF "altitude_10k" \in DOMAIN ind THEN ind["altitude_10k"] * FixedPointOne
       ELSE IF "altitude_hour" \in DOMAIN ind THEN ind["altitude_hour"] * FixedPointOne
       ELSE IF "altitude_min" \in DOMAIN ind THEN ind["altitude_min"] * FixedPointOne
       ELSE 0

(* ------------------------------ get_telemetry -------------------------- *)
\* A plausible slip: storing the reading without changing its sign.
fix_sign_keep(ind, k) == IF k \in DOMAIN ind THEN Put(ind, k, ind[k]) ELSE Put(ind, k, 0)

\* self.indicators[k] = -self.indicators[k], or 0 on KeyError
fix_sign(ind, k) == IF k \in DOMAIN ind THEN Put(ind, k, -ind[k]) ELSE Put(ind, k, 0)

\* self.basic_telemetry[k] = self.state[key], or None on KeyError
state_field(st, key) == IF key \in DOMAIN st THEN Some(st[key]) ELSE None

\* lines 186-233: the inner try of get_telemetry, entered with both valid
\* flags true and full_telemetry = basic_telemetry = {}
normalize(s) ==
  LET i1 == fix_sign(s.indicators, "aviahorizon_pitch")
      i2 == fix_sign(i1, "aviahorizon_roll")
  IN
  IF "type" \notin DOMAIN i2
  THEN \* find_altitude raises KeyError: except (KeyError, AttributeError)
       [s EXCEPT !.indicators = i2, !.status = IN_MENU]
  ELSE
    LET i3   == Put(i2, "alt_m", find_altitude(i2))
        full == combine_dicts(combine_dicts(s.full_telemetry, i3), s.state)
        b1   == Put(s.basic_telemetry, "airframe", i3["type"])
        b2   == Put(b1, "roll", i3["aviahorizon_roll"])
        b3   == Put(b2, "pitch", i3["aviahorizon_pitch"])
        b4   == Put(b3, "altitude", i3["alt_m"])
        b5   == Put(b4, "lat", s.map_info.player_lat)
        b6   == Put(b5, "lon", s.map_info.player_lon)
        b7   == Put(b6, "IAS", state_field(s.state, "IAS, km/h"))
        b8   == Put(b7, "flapState", state_field(s.state, "flaps, %"))
        b9   == Put(b8, "gearState", state_field(s.state, "gear, %"))
    IN [s EXCEPT !.indicators = i3,
                 !.full_telemetry = Put(Put(full, "lat", s.map_info.player_lat),
                                        "lon", s.map_info.player_lon),
                 !.basic_telemetry = b9,
                 !.connected = TRUE,
                 !.status = IN_FLIGHT]

\* lines 185-235: if self.indicators['valid'] and self.state['valid']
classify(s) ==
  IF "valid" \notin DOMAIN s.indicators THEN Raise(s, KeyError("valid"))
  ELSE IF ~s.indicators["valid"] THEN Done([s EXCEPT !.status = NO_MISSION])
  ELSE IF "valid" \notin DOMAIN s.state THEN Raise(s, KeyError("valid"))
  ELSE IF ~s.state["valid"] THEN Done([s EXCEPT !.status = NO_MISSION])
  ELSE Done(normalize(s))

\* lines 166-183: map refresh, the two snapshots, comments and events.
\* env holds the outcome of each request: map, ind, st, com, evt.
telemetry_fetch(s, comments, events, env) ==
  IF ~env.map.ok THEN Raise(s, env.map.exc)
  ELSE LET s1 == [s EXCEPT !.map_info = env.map.body] IN
  IF ~env.ind.ok THEN Raise(s1, env.ind.exc)
  ELSE LET s2 == [s1 EXCEPT !.indicators = env.ind.body] IN
  IF ~env.st.ok THEN Raise(s2, env.st.exc)
  ELSE LET s3 == [s2 EXCEPT !.state = env.st.body]
           rc == IF comments THEN get_comments(s3, env.com)
                 ELSE Done([s3 EXCEPT !.comments = <<>>])
       IN
  IF rc.exc # NoExc THEN rc
  ELSE IF events THEN get_events(rc.self, env.evt)
       ELSE Done([rc.self EXCEPT !.events = <<>>, !.events_type = "dict"])

\* A plausible slip: a handler that never tells the refused connection apart.
telemetry_except_no_test(r) ==
  IF r.exc = NoExc THEN r
  ELSE Done([r.self EXCEPT !.status = OTHER_ERROR])

\* lines 237-243: except Exception as e
telemetry_except(r) ==
  IF r.exc = NoExc THEN r
  ELSE IF FailedToEstablish(r.exc)
       THEN Done([r.self EXCEPT !.status = WT_NOT_RUNNING])
  ELSE Done([r.self EXCEPT !.status = OTHER_ERROR])

\* the whole method; ret is the value returned
get_telemetry(s, comments, events, env) ==
  LET s0 == [s EXCEPT !.connected = FALSE,
                      !.full_telemetry = EmptyDict,
                      !.basic_telemetry = EmptyDict]
      rf == telemetry_fetch(s0, comments, events, env)
      rb == IF rf.exc # NoExc THEN rf ELSE classify(rf.self)
      r9 == telemetry_except(rb)
  IN [self |-> r9.self, exc |-> r9.exc, ret |-> r9.self.connected]

(* ------------------------------- get_status ---------------------------- *)
\* A plausible slip: asking check_battle only after the snapshots and the
\* events were fetched.
status_body_fetch_first(s, env) ==
  IF ~env.map.ok THEN [self |-> s, exc |-> env.map.exc, ret |-> 0]
  ELSE
  IF ~env.ind.ok THEN [self |-> s, exc |-> env.ind.exc, ret |-> 0]
  ELSE LET s2 == [s EXCEPT !.indicators = env.ind.body] IN
  IF ~env.st.ok THEN [self |-> s2, exc |-> env.st.exc, ret |-> 0]
  ELSE LET s3 == [s2 EXCEPT !.state = env.st.body]
           re == get_events(s3, env.evt)
       IN
  IF re.exc # NoExc THEN [self |-> re.self, exc |-> re.exc, ret |-> 0]
  ELSE [self |-> re.self, exc |-> NoExc, ret |-> IN_MENU]

\* lines 259-281: the try body; ret is the code returned
status_body(s, env) ==
  IF ~env.map.ok THEN [self |-> s, exc |-> env.map.exc, ret |-> 0]
  ELSE IF ~env.map.body THEN [self |-> s, exc |-> NoExc, ret |-> IN_MENU]
  ELSE
  IF ~env.ind.ok THEN [self |-> s, exc |-> env.ind.exc, ret |-> 0]
  ELSE LET s2 == [s EXCEPT !.indicators = env.ind.body] IN
  IF ~env.st.ok THEN [self |-> s2, exc |-> env.st.exc, ret |-> 0]
  ELSE LET s3 == [s2 EXCEPT !.state = env.st.body]
           re == get_events(s3, env.evt)
           s4 == re.self
       IN
  IF re.exc # NoExc THEN [self |-> s4, exc |-> re.exc, ret |-> 0]
  ELSE IF "valid" \notin DOMAIN s4.indicators
       THEN [self |-> s4, exc |-> KeyError("valid"), ret |-> 0]
  ELSE IF ~s4.indicators["valid"]
       THEN [self |-> s4, exc |-> NoExc, ret |-> NO_MISSION]
  ELSE IF "valid" \notin DOMAIN s4.state
       THEN [self |-> s4, exc |-> KeyError("valid"), ret |-> 0]
  ELSE IF ~s4.state["valid"]
       THEN [self |-> s4, exc |-> NoExc, ret |-> NO_MISSION]
  ELSE IF "type" \notin DOMAIN s4.indicators
       THEN [self |-> s4, exc |-> NoExc, ret |-> IN_MENU]
  ELSE [self |-> [s4 EXCEPT !.basic_telemetry =
                               Put(@, "airframe", s4.indicators["type"]),
                            !.connected = TRUE],
        exc |-> NoExc, ret |-> IN_FLIGHT]

\* A plausible slip: handling only the two connection failures.
status_except_narrow(r) ==
  IF r.exc = NoExc THEN r
  ELSE IF r.exc.type = "ConnectTimeout" THEN [r EXCEPT !.exc = NoExc, !.ret = WT_NOT_RUNNING]
  ELSE IF FailedToEstablish(r.exc) THEN [r EXCEPT !.exc = NoExc, !.ret = WT_NOT_RUNNING]
  ELSE r

\* lines 283-292: except ConnectTimeout / except Exception as e
status_except(r) ==
  IF r.exc = NoExc THEN r
  ELSE IF r.exc.type = "ConnectTimeout" THEN [r EXCEPT !.exc = NoExc, !.ret = WT_NOT_RUNNING]
  ELSE IF FailedToEstablish(r.exc) THEN [r EXCEPT !.exc = NoExc, !.ret = WT_NOT_RUNNING]
  ELSE [r EXCEPT !.exc = NoExc, !.ret = OTHER_ERROR]

get_status(s, env) ==
  LET s0 == [s EXCEPT !.connected = FALSE,
                      !.full_telemetry = EmptyDict,
                      !.basic_telemetry = EmptyDict]
  IN status_except(status_body(s0, env))

(* ------------------------- inputs of the model ------------------------- *)
fw190 == <<"f","w","1","9","0">>
p51   == <<"p","-","5","1">>

\* indicators of end-to-end scenario 1
IndScenario1 ==
  [ valid |-> TRUE, type |-> fw190, aviahorizon_pitch |-> 2,
    aviahorizon_roll |-> -3, altitude_10k |-> 1000 ]
\* an imperial airframe, with the keys of the merge example
IndImperial ==
  [ valid |-> TRUE, type |-> p51, altitude_hour |-> 1000, a |-> 1, b |-> 2 ]
IndNoType  == [ valid |-> TRUE ]
IndInvalid == [ valid |-> FALSE ]

StScenario1 == ("valid" :> TRUE) @@ ("IAS, km/h" :> 350)
StMerge ==
  ("valid" :> TRUE) @@ ("b" :> 3) @@ ("c" :> 4) @@ ("flaps, %" :> 10)
    @@ ("gear, %" :> 100)
StInvalid == [ valid |-> FALSE ]

\* what download_files / parse_meta leave in map_info
MapBodies == {[player_lat |-> 10, player_lon |-> 20]}

\* A scope is the set of inputs one specification draws from: the snapshot
\* bodies, the exceptions a request may raise, the ids of the server's
\* records, and the two length bounds.
PollScope ==
  [ inds  |-> {IndScenario1, IndImperial, IndNoType, IndInvalid, EmptyDict},
    sts   |-> {StScenario1, StMerge, StInvalid},
    errs  |-> TransportErrors,
    ids   |-> 0..PollMaxId,
    batch |-> PollMaxLog,
    log   |-> PollMaxLog ]

LogScope ==
  [ inds  |-> {IndScenario1},
    sts   |-> {StScenario1},
    errs  |-> {ConnectionRefused},
    ids   |-> 0..MaxId,
    batch |-> MaxBatch,
    log   |-> MaxLog ]

\* the sequences of at most n distinct elements of S
RECURSIVE SeqsUpTo(_, _)
SeqsUpTo(S, n) ==
  IF n <= 0 THEN {<<>>}
  ELSE LET shorter == SeqsUpTo(S, n - 1)
       IN shorter \cup
          UNION { {Append(q, x) : x \in S \ {q[k] : k \in 1..Len(q)}} :
                  q \in {t \in shorter : Len(t) = n - 1} }

\* what the server answers to lastId = since: records with a greater id,
\* each once, in any order, as many as still fit a log of length len
Batches(U, since, len) ==
  SeqsUpTo({[id |-> i] : i \in {j \in U.ids : j > since}},
           IF U.log - len < U.batch THEN U.log - len ELSE U.batch)

Errs(U) == {RespErr(e) : e \in U.errs}
Oks(bodies) == {RespOk(b) : b \in bodies}

\* lastId of the gamechat request: URL_COMMENTS.format(IP_ADDRESS, self.last_comment_ID)
comments_lastId(s) == s.last_comment_ID

CommentResps(U, s) == Oks(Batches(U, comments_lastId(s), Len(s.comments)))
\* a hudmsg body with its 'damage' list, or without one
EventResps(U, s) ==
  Oks({[damage |-> b] : b \in Batches(U, s.last_event_ID, Len(s.events))}
      \cup {[events |-> <<>>]})

\* the outcomes of the requests of one get_telemetry(comments, events); a
\* request the code does not reach is NoReq
TelemetryEnvs(U, s, comments, events) ==
  [map : Errs(U), ind : {NoReq}, st : {NoReq}, com : {NoReq}, evt : {NoReq}]
  \cup [map : Oks(MapBodies), ind : Errs(U), st : {NoReq}, com : {NoReq}, evt : {NoReq}]
  \cup [map : Oks(MapBodies), ind : Oks(U.inds), st : Errs(U),
        com : {NoReq}, evt : {NoReq}]
  \cup [map : Oks(MapBodies), ind : Oks(U.inds), st : Oks(U.sts),
        com : IF comments THEN Errs(U) ELSE {}, evt : {NoReq}]
  \cup [map : Oks(MapBodies), ind : Oks(U.inds), st : Oks(U.sts),
        com : IF comments THEN CommentResps(U, s) ELSE {NoReq},
        evt : IF events THEN EventResps(U, s) \cup Errs(U) ELSE {NoReq}]

\* the same for get_status; map is the outcome of check_battle
StatusEnvs(U, s) ==
  [map : Errs(U) \cup {RespOk(FALSE)}, ind : {NoReq}, st : {NoReq}, evt : {NoReq}]
  \cup [map : {RespOk(TRUE)}, ind : Errs(U), st : {NoReq}, evt : {NoReq}]
  \cup [map : {RespOk(TRUE)}, ind : Oks(U.inds), st : Errs(U), evt : {NoReq}]
  \cup [map : {RespOk(TRUE)}, ind : Oks(U.inds), st : Oks(U.sts),
        evt : EventResps(U, s) \cup Errs(U)]

(* ------------------------------ the state ------------------------------ *)
\* the fields of the one TelemInterface instance
VARIABLES connected, full_telemetry, basic_telemetry, indicators, state,
          map_info, last_event_ID, last_comment_ID, comments, events,
          events_type, status

vars == <<connected, full_telemetry, basic_telemetry, indicators, state,
          map_info, last_event_ID, last_comment_ID, comments, events,
          events_type, status>>

Self ==
  [ connected       |-> connected,
    full_telemetry  |-> full_telemetry,
    basic_telemetry |-> basic_telemetry,
    indicators      |-> indicators,
    state           |-> state,
    map_info        |-> map_info,
    last_event_ID   |-> last_event_ID,
    last_comment_ID |-> last_comment_ID,
    comments        |-> comments,
    events          |-> events,
    events_type     |-> events_type,
    status          |-> status ]

\* the instance is left as s, whether the call returned or raised
Becomes(s) ==
  /\ connected' = s.connected
  /\ full_telemetry' = s.full_telemetry
  /\ basic_telemetry' = s.basic_telemetry
  /\ indicators' = s.indicators
  /\ state' = s.state
  /\ map_info' = s.map_info
  /\ last_event_ID' = s.last_event_ID
  /\ last_comment_ID' = s.last_comment_ID
  /\ comments' = s.comments
  /\ events' = s.events
  /\ events_type' = s.events_type
  /\ status' = s.status

Init ==
  /\ connected = NewTelemInterface.connected
  /\ full_telemetry = NewTelemInterface.full_telemetry
  /\ basic_telemetry = NewTelemInterface.basic_telemetry
  /\ indicators = NewTelemInterface.indicators
  /\ state = NewTelemInterface.state
  /\ map_info = NewTelemInterface.map_info
  /\ last_event_ID = NewTelemInterface.last_event_ID
  /\ last_comment_ID = NewTelemInterface.last_comment_ID
  /\ comments = NewTelemInterface.comments
  /\ events = NewTelemInterface.events
  /\ events_type = NewTelemInterface.events_type
  /\ status = NewTelemInterface.status

(* ------------------------------ operations ----------------------------- *)
\* the driver calls get_telemetry(comments, events)
CallGetTelemetry(U) ==
  \E c \in BOOLEAN, e \in BOOLEAN :
    \E env \in TelemetryEnvs(U, Self, c, e) :
      Becomes(get_telemetry(Self, c, e, env).self)

\* the driver calls get_status()
CallGetStatus(U) ==
  \E env \in StatusEnvs(U, Self) : Becomes(get_status(Self, env).self)

\* get_comments() called directly
CallGetComments(U) ==
  \E resp \in CommentResps(U, Self) \cup Errs(U) :
    Becomes(get_comments(Self, resp).self)

\* get_events() called directly
CallGetEvents(U) ==
  \E resp \in EventResps(U, Self) \cup Errs(U) :
    Becomes(get_events(Self, resp).self)

\* Spec: polls over every snapshot body, with a short log
GetTelemetry == CallGetTelemetry(PollScope)
GetStatus    == CallGetStatus(PollScope)
GetComments  == CallGetComments(PollScope)
GetEvents    == CallGetEvents(PollScope)

Next == GetTelemetry \/ GetStatus \/ GetComments \/ GetEvents

Spec == Init /\ [][Next]_vars

\* SpecLog: the comment and event logs over longer batches, one snapshot
LogGetTelemetry == CallGetTelemetry(LogScope)
LogGetStatus    == CallGetStatus(LogScope)
LogGetComments  == CallGetComments(LogScope)
LogGetEvents    == CallGetEvents(LogScope)

NextLog == LogGetTelemetry \/ LogGetStatus \/ LogGetComments \/ LogGetEvents

SpecLog == Init /\ [][NextLog]_vars

\* SpecAlt: find_altitude alone, over airframe types and altitude keys.
\* The instance stands at line 198 of a poll: both snapshots stored and
\* valid, the two signs fixed, no altitude computed yet.
TypeChars == {"p", "-", "f", "w", "P", "b", "_"}
AirframeTypes ==
  {<<>>} \cup {<<a>> : a \in TypeChars}
         \cup {<<a, b>> : a \in TypeChars, b \in TypeChars}
         \cup {fw190, p51, <<"P","-","5","1">>}
AltitudeKeys == {"altitude_10k", "altitude_hour", "altitude_min"}
AltitudeValues == -1..MaxAlt
AltitudeReadings == UNION {[K -> AltitudeValues] : K \in SUBSET AltitudeKeys}
AltIndicators ==
  { fix_sign(fix_sign(Put(Put(f, "type", t), "valid", TRUE),
                      "aviahorizon_pitch"), "aviahorizon_roll") :
      t \in AirframeTypes, f \in AltitudeReadings }

InitAlt ==
  /\ connected = FALSE
  /\ full_telemetry = EmptyDict
  /\ basic_telemetry = EmptyDict
  /\ indicators \in AltIndicators
  /\ state = StScenario1
  /\ map_info \in MapBodies
  /\ last_event_ID = NewTelemInterface.last_event_ID
  /\ last_comment_ID = NewTelemInterface.last_comment_ID
  /\ comments = <<>>
  /\ events = <<>>
  /\ events_type = "dict"
  /\ status = NewTelemInterface.status

\* line 198: self.indicators['alt_m'] = self.find_altitude()
FindAltitude ==
  /\ "alt_m" \notin DOMAIN indicators
  /\ indicators' = Put(indicators, "alt_m", find_altitude(indicators))
  /\ UNCHANGED <<connected, full_telemetry, basic_telemetry, state, map_info,
                 last_event_ID, last_comment_ID, comments, events,
                 events_type, status>>

NextAlt == FindAltitude

SpecAlt == InitAlt /\ [][NextAlt]_vars

(* ======================================================================= *)
(* Properties.  A property of a call is stated over every reachable state  *)
(* of the instance and every outcome of the requests the call can make     *)
(* there: Result.. is what the call then leaves and returns.               *)
(* ======================================================================= *)
HasTrue(d, k) == k \in DOMAIN d /\ d[k]
HasFalse(d, k) == k \in DOMAIN d /\ ~d[k]
SameDict(d1, d2) == DOMAIN d1 = DOMAIN d2 /\ \A k \in DOMAIN d1 : d1[k] = d2[k]
IsPrefix(p, q) == Len(p) <= Len(q) /\ \A n \in 1..Len(p) : p[n] = q[n]

\* every request the poll issued was answered
TransportSucceeds(env, c, e) ==
  /\ env.map.ok /\ env.ind.ok /\ env.st.ok
  /\ c => env.com.ok
  /\ e => env.evt.ok

\* the hudmsg request failed, or its body has no 'damage'
EventFetchFails(resp) == ~resp.ok \/ "damage" \notin DOMAIN resp.body

(* ---- C1 ---- *)
\* C1: a poll whose requests all succeed, with indicators.valid and
\* state.valid true and 'type' in indicators, classifies the game as
\* IN_FLIGHT and sets connected: get_telemetry stores 0 and returns True,
\* get_status (in battle) returns 0; after any earlier polls.
C1_AllSucceedIsInFlight ==
  /\ \A c \in BOOLEAN, e \in BOOLEAN :
       \A env \in TelemetryEnvs(PollScope, Self, c, e) :
         ( /\ TransportSucceeds(env, c, e)
           /\ HasTrue(env.ind.body, "valid") /\ HasTrue(env.st.body, "valid")
           /\ "type" \in DOMAIN env.ind.body )
         => LET r == get_telemetry(Self, c, e, env)
            IN /\ r.exc = NoExc
               /\ r.self.status = IN_FLIGHT
               /\ r.ret = TRUE
               /\ r.self.connected
  /\ \A env \in StatusEnvs(PollScope, Self) :
       ( /\ env.map = RespOk(TRUE) /\ env.ind.ok /\ env.st.ok /\ env.evt.ok
         /\ HasTrue(env.ind.body, "valid") /\ HasTrue(env.st.body, "valid")
         /\ "type" \in DOMAIN env.ind.body )
       => LET r == get_status(Self, env)
          IN r.exc = NoExc /\ r.ret = IN_FLIGHT /\ r.self.connected

(* ---- C2 ---- *)
\* C2: when the indicators, state or comments request of a poll raises a
\* connect-timeout the poll ends as GAME_NOT_RUNNING: get_telemetry stores
\* -3, get_status returns -3, and nothing is raised to the caller.
C2_ConnectTimeoutIsNotRunning ==
  /\ \A c \in BOOLEAN, e \in BOOLEAN :
       \A env \in TelemetryEnvs(PollScope, Self, c, e) :
         RespErr(ConnectTimeout) \in {env.ind, env.st, env.com}
         => LET r == get_telemetry(Self, c, e, env)
            IN r.exc = NoExc /\ r.self.status = WT_NOT_RUNNING
  /\ \A env \in StatusEnvs(PollScope, Self) :
       RespErr(ConnectTimeout) \in {env.ind, env.st}
       => LET r == get_status(Self, env)
          IN r.exc = NoExc /\ r.ret = WT_NOT_RUNNING

(* ---- C3 ---- *)
\* the same requests, with a failed comments / events fetch replaced by one
\* that succeeds with an empty batch
SucceedEmpty(env, c, e) ==
  [env EXCEPT
     !.com = IF c /\ ~@.ok THEN RespOk(<<>>) ELSE @,
     !.evt = IF e /\ EventFetchFails(@) THEN RespOk([damage |-> <<>>]) ELSE @]

\* C3: a failure of the comments fetch or of the events fetch inside
\* get_telemetry is best-effort: the stored status, the return value and the
\* two telemetry dictionaries are those the poll would have given had the
\* fetch succeeded with an empty batch.
C3_FetchFailureIsBestEffort ==
  \A c \in BOOLEAN, e \in BOOLEAN :
    \A env \in TelemetryEnvs(PollScope, Self, c, e) :
      ( /\ env.map.ok /\ env.ind.ok /\ env.st.ok
        /\ (c /\ ~env.com.ok) \/ (e /\ EventFetchFails(env.evt)) )
      => LET r == get_telemetry(Self, c, e, env)
             h == get_telemetry(Self, c, e, SucceedEmpty(env, c, e))
         IN /\ r.exc = NoExc
            /\ r.self.status = h.self.status
            /\ r.ret = h.ret
            /\ SameDict(r.self.full_telemetry, h.self.full_telemetry)
            /\ SameDict(r.self.basic_telemetry, h.self.basic_telemetry)

(* ---- C4 ---- *)
\* C4: in every reachable state, a get_events whose fetch fails (transport
\* error, or a body without 'damage') returns normally and leaves events and
\* last_event_ID as they were.
C4_FailedEventFetchChangesNothing ==
  \A resp \in EventResps(LogScope, Self) \cup Errs(LogScope) :
    EventFetchFails(resp)
    => LET r == get_events(Self, resp)
       IN /\ r.exc = NoExc
          /\ r.self.events = events
          /\ r.self.events_type = events_type
          /\ r.self.last_event_ID = last_event_ID

(* ---- C5 ---- *)
\* C5: no call shrinks or resets the accumulated logs: every record of
\* comments / events before a call is still there after it, in the same
\* order.
C5_LogsNeverShrink ==
  [][IsPrefix(comments, comments') /\ IsPrefix(events, events')]_vars

(* ---- C6 ---- *)
\* C6: with every response carrying only records whose id is greater than
\* the id requested, no call decreases last_comment_ID or last_event_ID.
C6_WatermarksNeverDecrease ==
  [][last_comment_ID' >= last_comment_ID /\ last_event_ID' >= last_event_ID]_vars

\* both watermarks have advanced, the comments were then emptied by a poll,
\* and the events arrived out of order
C6_Witness ==
  /\ last_comment_ID >= 1 /\ comments = <<>>
  /\ events_type = "list" /\ Len(events) >= 2
  /\ events[1].id > events[2].id
  /\ last_event_ID = events[Len(events)].id

(* ---- C7 ---- *)
\* C7: whatever the transport and the map collaborator do, get_telemetry
\* and get_status return normally, and the status they report (the stored
\* status, the returned code) is one of the five codes.
C7_NoExceptionCrossesThePolls ==
  /\ \A c \in BOOLEAN, e \in BOOLEAN :
       \A env \in TelemetryEnvs(PollScope, Self, c, e) :
         LET r == get_telemetry(Self, c, e, env)
         IN r.exc = NoExc /\ r.self.status \in StatusCodes
  /\ \A env \in StatusEnvs(PollScope, Self) :
       LET r == get_status(Self, env)
       IN r.exc = NoExc /\ r.ret \in StatusCodes

\* a poll has ended in the catch-all handler, with events already a dict (a
\* further poll that fetches events then raises KeyError inside)
C7_Witness == status = OTHER_ERROR /\ events_type = "dict"

(* ---- C8 ---- *)
\* the poll fetched the snapshots of end-to-end scenario 1
Scenario1(env) == env.ind = RespOk(IndScenario1) /\ env.st = RespOk(StScenario1)

\* basic_telemetry of s has the given altitude (fixed point), pitch and roll
Attitude(s, altitude, pitch, roll) ==
  /\ {"altitude", "pitch", "roll"} \subseteq DOMAIN s.basic_telemetry
  /\ s.basic_telemetry["altitude"] = altitude
  /\ s.basic_telemetry["pitch"] = pitch
  /\ s.basic_telemetry["roll"] = roll

\* C8 as stated: a get_telemetry poll that fetches the scenario 1 snapshots
\* ends IN_FLIGHT with altitude 1000 ft in metres (1000 * 0.3048 = 304.8),
\* pitch -2 and roll 3; an 'fw' airframe is an imperial-unit airframe.
C8_Scenario1InFeet ==
  /\ \A c \in BOOLEAN, e \in BOOLEAN :
       \A env \in TelemetryEnvs(PollScope, Self, c, e) :
         Scenario1(env)
         => LET r == get_telemetry(Self, c, e, env)
            IN /\ r.self.status = IN_FLIGHT
               /\ Attitude(r.self, 1000 * FT_TO_M, -2, 3)
  /\ Prefix2(fw190) \in METRICS_PLANES

\* C8 amended: a get_telemetry poll with the default flags that fetches the
\* scenario 1 snapshots ends IN_FLIGHT; with any flags, when it ends
\* IN_FLIGHT basic_telemetry has the raw altitude 1000 (not 304.8), pitch -2
\* and roll 3; 'fw' is not in the allow-list, so an 'fw' airframe is metric.
C8_Scenario1Raw ==
  /\ \A c \in BOOLEAN, e \in BOOLEAN :
       \A env \in TelemetryEnvs(PollScope, Self, c, e) :
         Scenario1(env)
         => LET r == get_telemetry(Self, c, e, env)
            IN /\ r.exc = NoExc
               /\ (~c /\ ~e) => r.self.status = IN_FLIGHT
               /\ r.self.status = IN_FLIGHT
                    => Attitude(r.self, 1000 * FixedPointOne, -2, 3)
  /\ Prefix2(fw190) \notin METRICS_PLANES

\* the scenario 1 poll has run and published its telemetry
C8_Witness ==
  /\ status = IN_FLIGHT /\ connected
  /\ "airframe" \in DOMAIN basic_telemetry
  /\ basic_telemetry["airframe"] = fw190
  /\ Attitude(Self, 1000 * FixedPointOne, -2, 3)
  /\ basic_telemetry["IAS"] = Some(350)

(* ---- C9 ---- *)
\* C9: when the requests of a get_telemetry succeed but indicators.valid or
\* state.valid is false, the poll ends NO_MISSION with connected false,
\* returns False, and both telemetry dictionaries are empty.
C9_InvalidIsNoMission ==
  \A c \in BOOLEAN, e \in BOOLEAN :
    \A env \in TelemetryEnvs(PollScope, Self, c, e) :
      ( /\ TransportSucceeds(env, c, e)
        /\ "valid" \in DOMAIN env.ind.body /\ "valid" \in DOMAIN env.st.body
        /\ ~env.ind.body["valid"] \/ ~env.st.body["valid"] )
      => LET r == get_telemetry(Self, c, e, env)
         IN /\ r.exc = NoExc
            /\ r.self.status = NO_MISSION
            /\ ~r.self.connected /\ r.ret = FALSE
            /\ r.self.full_telemetry = EmptyDict
            /\ r.self.basic_telemetry = EmptyDict

(* ---- C10 ---- *)
\* C10: when the requests of a get_telemetry succeed and both snapshots are
\* valid but indicators has no 'type', the poll ends IN_MENU, returns False,
\* leaves connected false and publishes no telemetry at all.
C10_NoTypeIsInMenu ==
  \A c \in BOOLEAN, e \in BOOLEAN :
    \A env \in TelemetryEnvs(PollScope, Self, c, e) :
      ( /\ TransportSucceeds(env, c, e)
        /\ HasTrue(env.ind.body, "valid") /\ HasTrue(env.st.body, "valid")
        /\ "type" \notin DOMAIN env.ind.body )
      => LET r == get_telemetry(Self, c, e, env)
         IN /\ r.exc = NoExc
            /\ r.self.status = IN_MENU
            /\ ~r.self.connected /\ r.ret = FALSE
            /\ r.self.full_telemetry = EmptyDict
            /\ r.self.basic_telemetry = EmptyDict

(* ---- C11 ---- *)
\* the request raised the connection-establishment failure
Refused(resp) == resp = RespErr(ConnectionRefused)

C12_NoBattleShortCircuits ==
  \A env \in StatusEnvs(PollScope, Self) :
    LET r == get_status(Self, [env EXCEPT !.map = RespOk(FALSE)])
    IN /\ r.exc = NoExc
       /\ r.ret = IN_MENU
       /\ r.self.indicators = indicators
       /\ r.self.state = state
       /\ r.self.events = events
       /\ r.self.events_type = events_type
       /\ r.self.last_event_ID = last_event_ID

\* a get_status ran after an in-flight get_telemetry without replacing the
\* indicators that poll had normalised
C12_Witness ==
  /\ status = IN_FLIGHT /\ ~connected
  /\ "alt_m" \in DOMAIN indicators
  /\ basic_telemetry = EmptyDict

(* ---- C13 ---- *)
\* w is the greatest id of the records of log
GreatestId(log, w) ==
  /\ \E n \in 1..Len(log) : log[n].id = w
  /\ \A n \in 1..Len(log) : log[n].id <= w

\* the gamechat batch of end-to-end scenario 5
Scenario5Batch == <<[id |-> 3], [id |-> 1], [id |-> 5]>>

\* C13: get_comments asks for the ids greater than last_comment_ID (-1 on a
\* fresh instance), appends the batch, and leaves last_comment_ID at the
\* greatest id of the whole accumulated sequence, whatever the order of the
\* batch; the next request asks for the ids above it.  From -1, the batch
\* [3,1,5] gives 5.
C13_CommentWatermarkIsMax ==
  /\ comments_lastId(NewTelemInterface) = -1
  /\ LET r == get_comments(NewTelemInterface, RespOk(Scenario5Batch))
     IN /\ r.exc = NoExc
        /\ r.self.comments = Scenario5Batch
        /\ r.self.last_comment_ID = 5
        /\ comments_lastId(r.self) = 5
  /\ comments_lastId(Self) = last_comment_ID
  /\ \A resp \in CommentResps(LogScope, Self) :
       LET r == get_comments(Self, resp)
       IN /\ r.exc = NoExc
          /\ r.self.comments = comments \o resp.body
          /\ r.self.comments # <<>>
               => GreatestId(r.self.comments, r.self.last_comment_ID)
          /\ r.self.comments = <<>> => r.self.last_comment_ID = last_comment_ID
          /\ comments_lastId(r.self) = r.self.last_comment_ID

\* comments were accumulated out of order: the watermark is the greatest
\* id, not the last one
C13_Witness ==
  /\ Len(comments) >= 2
  /\ comments[Len(comments)].id < last_comment_ID
  /\ GreatestId(comments, last_comment_ID)

(* ---- C14 ---- *)
\* the value of the first altitude key present, in the order altitude_10k,
\* altitude_hour, altitude_min; 0 when there is none
AltitudeOrder == <<"altitude_10k", "altitude_hour", "altitude_min">>
FirstAltitude(ind) ==
  LET present == {n \in 1..Len(AltitudeOrder) : AltitudeOrder[n] \in DOMAIN ind}
  IN IF present = {} THEN 0
     ELSE ind[AltitudeOrder[CHOOSE n \in present : \A m \in present : n <= m]]

\* the first two characters of the type are on the allow-list
Imperial(ind) ==
  /\ Len(ind["type"]) >= 2
  /\ \E p \in METRICS_PLANES : p[1] = ind["type"][1] /\ p[2] = ind["type"][2]

\* v * 0.3048 or v, in units of 1/FixedPointOne
Reference(ind) ==
  IF Imperial(ind) THEN FirstAltitude(ind) * FT_TO_M
  ELSE FirstAltitude(ind) * FixedPointOne

\* the readings line 198 saw: the indicators without the key it wrote
WithoutAltM(ind) == [k \in DOMAIN ind \ {"alt_m"} |-> ind[k]]

\* C14: find_altitude is the reference function: the first present value
\* among altitude_10k, altitude_hour, altitude_min (0 when none), times
\* 0.3048 when the first two characters of the type are on the allow-list,
\* unchanged otherwise; for every type prefix and every subset of the keys.
C14_FindAltitudeIsReference ==
  /\ "alt_m" \notin DOMAIN indicators
       => find_altitude(indicators) = Reference(indicators)
  /\ "alt_m" \in DOMAIN indicators
       => indicators["alt_m"] = Reference(WithoutAltM(indicators))

\* a metric airframe with the three keys present and different: altitude_10k won
C14_Witness ==
  /\ "alt_m" \in DOMAIN indicators
  /\ indicators["type"] = fw190
  /\ AltitudeKeys \subseteq DOMAIN indicators
  /\ indicators["altitude_10k"] = 1
  /\ indicators["altitude_hour"] = 2
  /\ indicators["altitude_min"] = 0
  /\ indicators["alt_m"] = FixedPointOne

(* ---- C15 ---- *)
\* the poll can reach the sign fix: every request answered, both snapshots
\* valid
FetchesValid(env, c, e) ==
  /\ TransportSucceeds(env, c, e)
  /\ HasTrue(env.ind.body, "valid") /\ HasTrue(env.st.body, "valid")

\* the reading with its sign changed, 0 when the snapshot has no such key
Negated(body, k) == IF k \in DOMAIN body THEN 0 - body[k] ELSE 0

\* C15: after a get_telemetry poll that ends IN_FLIGHT, basic_telemetry.pitch
\* is the negation of the fetched aviahorizon_pitch, or 0 when the fetched
\* indicators have no such key, and the same for roll; the sign is changed
\* once per poll, whatever the polls before left in the instance.
C15_SignFixedOncePerPoll ==
  \A c \in BOOLEAN, e \in BOOLEAN :
    \A env \in TelemetryEnvs(PollScope, Self, c, e) :
      FetchesValid(env, c, e)
      => LET r == get_telemetry(Self, c, e, env)
         IN r.self.status = IN_FLIGHT
            => /\ {"pitch", "roll"} \subseteq DOMAIN r.self.basic_telemetry
               /\ r.self.basic_telemetry["pitch"]
                    = Negated(env.ind.body, "aviahorizon_pitch")
               /\ r.self.basic_telemetry["roll"]
                    = Negated(env.ind.body, "aviahorizon_roll")
               /\ r.self.indicators["aviahorizon_pitch"]
                    = Negated(env.ind.body, "aviahorizon_pitch")
               /\ r.self.indicators["aviahorizon_roll"]
                    = Negated(env.ind.body, "aviahorizon_roll")

\* a poll read pitch 2 and roll -3 and published -2 and 3
C15_Witness ==
  /\ status = IN_FLIGHT /\ connected
  /\ {"pitch", "roll"} \subseteq DOMAIN basic_telemetry
  /\ basic_telemetry["pitch"] = -2 /\ indicators["aviahorizon_pitch"] = -2
  /\ basic_telemetry["roll"] = 3 /\ indicators["aviahorizon_roll"] = 3

(* ---- C16 ---- *)
\* C16: after a get_telemetry poll that ends IN_FLIGHT, full_telemetry has
\* exactly the keys of the normalized indicators, of the state snapshot, and
\* lat and lon; a key of both snapshots holds the state value, lat and lon
\* hold the map's player position.  Indicators {a:1, b:2} with state
\* {b:3, c:4} give a:1, b:3, c:4.
C16_StateWinsTheMerge ==
  \A c \in BOOLEAN, e \in BOOLEAN :
    \A env \in TelemetryEnvs(PollScope, Self, c, e) :
      FetchesValid(env, c, e)
      => LET r    == get_telemetry(Self, c, e, env)
             full == r.self.full_telemetry
         IN r.self.status = IN_FLIGHT
            => /\ r.self.state = env.st.body
               /\ DOMAIN r.self.indicators
                    = DOMAIN env.ind.body
                        \cup {"aviahorizon_pitch", "aviahorizon_roll", "alt_m"}
               /\ DOMAIN full = DOMAIN r.self.indicators
                                  \cup DOMAIN r.self.state \cup {"lat", "lon"}
               /\ \A k \in DOMAIN r.self.state : full[k] = r.self.state[k]
               /\ \A k \in DOMAIN r.self.indicators \ DOMAIN r.self.state :
                    full[k] = r.self.indicators[k]
               /\ full["lat"] = env.map.body.player_lat
               /\ full["lon"] = env.map.body.player_lon
               /\ (env.ind.body = IndImperial /\ env.st.body = StMerge)
                    => full["a"] = 1 /\ full["b"] = 3 /\ full["c"] = 4

\* the poll of the merge example has run
C16_Witness ==
  /\ status = IN_FLIGHT /\ connected
  /\ {"a", "b", "c", "lat", "lon"} \subseteq DOMAIN full_telemetry
  /\ full_telemetry["a"] = 1 /\ full_telemetry["b"] = 3 /\ full_telemetry["c"] = 4
  /\ indicators["b"] = 2 /\ state["b"] = 3
  /\ full_telemetry["lat"] = 10 /\ full_telemetry["lon"] = 20

(* ---- C17 ---- *)
\* the state value under key, or the no-value marker
FieldOrNone(body, key) == IF key \in DOMAIN body THEN <<body[key]>> ELSE <<>>

\* C17: a get_telemetry poll with both snapshots valid and 'type' present
\* ends IN_FLIGHT whichever of "IAS, km/h", "flaps, %", "gear, %" the state
\* lacks, and basic_telemetry has IAS, flapState and gearState, each the
\* state value or None.
C17_MissingFieldsAreNone ==
  \A c \in BOOLEAN, e \in BOOLEAN :
    \A env \in TelemetryEnvs(PollScope, Self, c, e) :
      (FetchesValid(env, c, e) /\ "type" \in DOMAIN env.ind.body)
      => LET r == get_telemetry(Self, c, e, env)
             b == r.self.basic_telemetry
         IN /\ r.self.status = IN_FLIGHT
            /\ {"IAS", "flapState", "gearState"} \subseteq DOMAIN b
            /\ b["IAS"] = FieldOrNone(env.st.body, "IAS, km/h")
            /\ b["flapState"] = FieldOrNone(env.st.body, "flaps, %")
            /\ b["gearState"] = FieldOrNone(env.st.body, "gear, %")

(* ---- C18 ---- *)
\* C18: after get_telemetry or get_status the status field holds the code
\* that poll computed: for get_status the code it returned, for
\* get_telemetry the code its return value tells (True exactly for
\* IN_FLIGHT).
C18_StatusFieldIsLastComputed ==
  /\ \A env \in StatusEnvs(PollScope, Self) :
       LET r == get_status(Self, env) IN r.self.status = r.ret
  /\ \A c \in BOOLEAN, e \in BOOLEAN :
       \A env \in TelemetryEnvs(PollScope, Self, c, e) :
         LET r == get_telemetry(Self, c, e, env)
         IN r.self.status \in StatusCodes /\ r.ret = (r.self.status = IN_FLIGHT)

(* ---- C19 ---- *)
BasicKeys ==
  {"airframe", "roll", "pitch", "altitude", "lat", "lon", "IAS", "flapState",
   "gearState"}

\* C19: in every reachable state basic_telemetry is empty or has exactly
\* the nine keys; when connected is true it has the nine.
C19_BasicTelemetryIsFixedShape ==
  /\ basic_telemetry = EmptyDict \/ DOMAIN basic_telemetry = BasicKeys
  /\ connected => DOMAIN basic_telemetry = BasicKeys

(* ---- C20 ---- *)
NoDuplicateId(log) ==
  \A m \in 1..Len(log), n \in 1..Len(log) : m # n => log[m].id # log[n].id
NonDecreasing(log) ==
  \A m \in 1..Len(log), n \in 1..Len(log) : m < n => log[m].id <= log[n].id
Increasing(log) ==
  \A m \in 1..Len(log), n \in 1..Len(log) : m < n => log[m].id < log[n].id

\* C20 as stated: with each response carrying, in any order, the records
\* whose id is greater than the id requested, no id is twice in comments and
\* no id is twice in events.
C20_NoIdTwice == NoDuplicateId(comments) /\ NoDuplicateId(events)

\* C20 amended: no id is twice in comments, whatever the order of the
\* responses; no id is twice in events while the accumulated events are in
\* non-decreasing id order, and a hudmsg response that lists its records in
\* increasing id order keeps them so.
C20_NoIdTwiceInOrder ==
  /\ NoDuplicateId(comments)
  /\ NonDecreasing(events) => NoDuplicateId(events)
  /\ NonDecreasing(events)
       => \A resp \in EventResps(LogScope, Self) :
            ("damage" \in DOMAIN resp.body /\ Increasing(resp.body.damage))
            => LET r == get_events(Self, resp)
               IN NonDecreasing(r.self.events) /\ NoDuplicateId(r.self.events)

\* comments arrived out of order and events in order, over several fetches
C20_Witness ==
  /\ Len(comments) = 3 /\ comments[1].id > comments[2].id
  /\ NoDuplicateId(comments)
  /\ events_type = "list" /\ Len(events) = 3
  /\ Increasing(events) /\ last_event_ID = events[3].id

====
